---- MODULE Spec2Model ----
(***************************************************************************)
(* csh-ldap: a pooled LDAP client (src/src/client.rs) and the decoding of  *)
(* directory entries into LdapUser records (src/src/user.rs).              *)
(*                                                                         *)
(* Strings are sequences of characters, so that parsing, formatting and     *)
(* pattern matching are computed character by character.                   *)
(* A Rust Option is a sequence of length 0 (None) or 1 (Some).             *)
(***************************************************************************)
EXTENDS Integers, Sequences, FiniteSets, Bags, TLC

(***************************************************************************)
(* Option, and the outcome of a function that may panic (unwrap).          *)
(***************************************************************************)
None == <<>>
Some(v) == <<v>>
IsSome(o) == Len(o) = 1

Returned(v) == [panicked |-> FALSE, value |-> v]
Panicked == [panicked |-> TRUE, value |-> <<>>]

(***************************************************************************)
(* Characters.  A char is its Unicode scalar value, a number; Chr and Str  *)
(* write the printable ASCII ones as they print.                           *)
(***************************************************************************)
Ascii32 ==
    <<" ", "!", "\"", "#", "$", "%", "&", "'", "(", ")", "*", "+", ",", "-", ".", "/",
      "0", "1", "2", "3", "4", "5", "6", "7", "8", "9", ":", ";", "<", "=", ">", "?",
      "@", "A", "B", "C", "D", "E", "F", "G", "H", "I", "J", "K", "L", "M", "N", "O",
      "P", "Q", "R", "S", "T", "U", "V", "W", "X", "Y", "Z", "[", "\\", "]", "^", "_">>
Ascii97 ==
    <<"a", "b", "c", "d", "e", "f", "g", "h", "i", "j", "k", "l", "m", "n", "o",
      "p", "q", "r", "s", "t", "u", "v", "w", "x", "y", "z", "{", "|", "}", "~">>
\* the scalar value of each of them
RECURSIVE CodesFrom(_, _)
CodesFrom(chars, first) ==
    IF chars = <<>> THEN <<>>
    ELSE (Head(chars) :> first) @@ CodesFrom(Tail(chars), first + 1)
CodeOf == CodesFrom(Ascii32, 32) @@ CodesFrom(Ascii97, 97)
Chr(c) == CodeOf[c]
RECURSIVE Str(_)
Str(s) == IF s = <<>> THEN <<>> ELSE <<Chr(Head(s))>> \o Str(Tail(s))

DigitChars == Str(<<"0", "1", "2", "3", "4", "5", "6", "7", "8", "9">>)
IsDigit(ch) == \E i \in 1..10 : DigitChars[i] = ch
DigitVal(ch) == (CHOOSE i \in 1..10 : DigitChars[i] = ch) - 1

\* \w of the regex crate, which is that of Unicode (the pattern has no
\* (?-u)): Alphabetic, the marks, the decimal digits, the connector
\* punctuation and the join controls, as ranges of scalar values in
\* ascending order. The table is the one that regex-syntax 0.8.5 and later
\* carry (Unicode 16.0).
PERL_WORD ==
    <<<<48, 57>>, <<65, 90>>, <<95, 95>>, <<97, 122>>, <<170, 170>>, <<181, 181>>, <<186, 186>>,
      <<192, 214>>, <<216, 246>>, <<248, 705>>, <<710, 721>>, <<736, 740>>, <<748, 748>>,
      <<750, 750>>, <<768, 884>>, <<886, 887>>, <<890, 893>>, <<895, 895>>, <<902, 902>>,
      <<904, 906>>, <<908, 908>>, <<910, 929>>, <<931, 1013>>, <<1015, 1153>>, <<1155, 1327>>,
      <<1329, 1366>>, <<1369, 1369>>, <<1376, 1416>>, <<1425, 1469>>, <<1471, 1471>>,
      <<1473, 1474>>, <<1476, 1477>>, <<1479, 1479>>, <<1488, 1514>>, <<1519, 1522>>,
      <<1552, 1562>>, <<1568, 1641>>, <<1646, 1747>>, <<1749, 1756>>, <<1759, 1768>>,
      <<1770, 1788>>, <<1791, 1791>>, <<1808, 1866>>, <<1869, 1969>>, <<1984, 2037>>,
      <<2042, 2042>>, <<2045, 2045>>, <<2048, 2093>>, <<2112, 2139>>, <<2144, 2154>>,
      <<2160, 2183>>, <<2185, 2190>>, <<2199, 2273>>, <<2275, 2403>>, <<2406, 2415>>,
      <<2417, 2435>>, <<2437, 2444>>, <<2447, 2448>>, <<2451, 2472>>, <<2474, 2480>>,
      <<2482, 2482>>, <<2486, 2489>>, <<2492, 2500>>, <<2503, 2504>>, <<2507, 2510>>,
      <<2519, 2519>>, <<2524, 2525>>, <<2527, 2531>>, <<2534, 2545>>, <<2556, 2556>>,
      <<2558, 2558>>, <<2561, 2563>>, <<2565, 2570>>, <<2575, 2576>>, <<2579, 2600>>,
      <<2602, 2608>>, <<2610, 2611>>, <<2613, 2614>>, <<2616, 2617>>, <<2620, 2620>>,
      <<2622, 2626>>, <<2631, 2632>>, <<2635, 2637>>, <<2641, 2641>>, <<2649, 2652>>,
      <<2654, 2654>>, <<2662, 2677>>, <<2689, 2691>>, <<2693, 2701>>, <<2703, 2705>>,
      <<2707, 2728>>, <<2730, 2736>>, <<2738, 2739>>, <<2741, 2745>>, <<2748, 2757>>,
      <<2759, 2761>>, <<2763, 2765>>, <<2768, 2768>>, <<2784, 2787>>, <<2790, 2799>>,
      <<2809, 2815>>, <<2817, 2819>>, <<2821, 2828>>, <<2831, 2832>>, <<2835, 2856>>,
      <<2858, 2864>>, <<2866, 2867>>, <<2869, 2873>>, <<2876, 2884>>, <<2887, 2888>>,
      <<2891, 2893>>, <<2901, 2903>>, <<2908, 2909>>, <<2911, 2915>>, <<2918, 2927>>,
      <<2929, 2929>>, <<2946, 2947>>, <<2949, 2954>>, <<2958, 2960>>, <<2962, 2965>>,
      <<2969, 2970>>, <<2972, 2972>>, <<2974, 2975>>, <<2979, 2980>>, <<2984, 2986>>,
      <<2990, 3001>>, <<3006, 3010>>, <<3014, 3016>>, <<3018, 3021>>, <<3024, 3024>>,
      <<3031, 3031>>, <<3046, 3055>>, <<3072, 3084>>, <<3086, 3088>>, <<3090, 3112>>,
      <<3114, 3129>>, <<3132, 3140>>, <<3142, 3144>>, <<3146, 3149>>, <<3157, 3158>>,
      <<3160, 3162>>, <<3165, 3165>>, <<3168, 3171>>, <<3174, 3183>>, <<3200, 3203>>,
      <<3205, 3212>>, <<3214, 3216>>, <<3218, 3240>>, <<3242, 3251>>, <<3253, 3257>>,
      <<3260, 3268>>, <<3270, 3272>>, <<3274, 3277>>, <<3285, 3286>>, <<3293, 3294>>,
      <<3296, 3299>>, <<3302, 3311>>, <<3313, 3315>>, <<3328, 3340>>, <<3342, 3344>>,
      <<3346, 3396>>, <<3398, 3400>>, <<3402, 3406>>, <<3412, 3415>>, <<3423, 3427>>,
      <<3430, 3439>>, <<3450, 3455>>, <<3457, 3459>>, <<3461, 3478>>, <<3482, 3505>>,
      <<3507, 3515>>, <<3517, 3517>>, <<3520, 3526>>, <<3530, 3530>>, <<3535, 3540>>,
      <<3542, 3542>>, <<3544, 3551>>, <<3558, 3567>>, <<3570, 3571>>, <<3585, 3642>>,
      <<3648, 3662>>, <<3664, 3673>>, <<3713, 3714>>, <<3716, 3716>>, <<3718, 3722>>,
      <<3724, 3747>>, <<3749, 3749>>, <<3751, 3773>>, <<3776, 3780>>, <<3782, 3782>>,
      <<3784, 3790>>, <<3792, 3801>>, <<3804, 3807>>, <<3840, 3840>>, <<3864, 3865>>,
      <<3872, 3881>>, <<3893, 3893>>, <<3895, 3895>>, <<3897, 3897>>, <<3902, 3911>>,
      <<3913, 3948>>, <<3953, 3972>>, <<3974, 3991>>, <<3993, 4028>>, <<4038, 4038>>,
      <<4096, 4169>>, <<4176, 4253>>, <<4256, 4293>>, <<4295, 4295>>, <<4301, 4301>>,
      <<4304, 4346>>, <<4348, 4680>>, <<4682, 4685>>, <<4688, 4694>>, <<4696, 4696>>,
      <<4698, 4701>>, <<4704, 4744>>, <<4746, 4749>>, <<4752, 4784>>, <<4786, 4789>>,
      <<4792, 4798>>, <<4800, 4800>>, <<4802, 4805>>, <<4808, 4822>>, <<4824, 4880>>,
      <<4882, 4885>>, <<4888, 4954>>, <<4957, 4959>>, <<4992, 5007>>, <<5024, 5109>>,
      <<5112, 5117>>, <<5121, 5740>>, <<5743, 5759>>, <<5761, 5786>>, <<5792, 5866>>,
      <<5870, 5880>>, <<5888, 5909>>, <<5919, 5940>>, <<5952, 5971>>, <<5984, 5996>>,
      <<5998, 6000>>, <<6002, 6003>>, <<6016, 6099>>, <<6103, 6103>>, <<6108, 6109>>,
      <<6112, 6121>>, <<6155, 6157>>, <<6159, 6169>>, <<6176, 6264>>, <<6272, 6314>>,
      <<6320, 6389>>, <<6400, 6430>>, <<6432, 6443>>, <<6448, 6459>>, <<6470, 6509>>,
      <<6512, 6516>>, <<6528, 6571>>, <<6576, 6601>>, <<6608, 6617>>, <<6656, 6683>>,
      <<6688, 6750>>, <<6752, 6780>>, <<6783, 6793>>, <<6800, 6809>>, <<6823, 6823>>,
      <<6832, 6862>>, <<6912, 6988>>, <<6992, 7001>>, <<7019, 7027>>, <<7040, 7155>>,
      <<7168, 7223>>, <<7232, 7241>>, <<7245, 7293>>, <<7296, 7306>>, <<7312, 7354>>,
      <<7357, 7359>>, <<7376, 7378>>, <<7380, 7418>>, <<7424, 7957>>, <<7960, 7965>>,
      <<7968, 8005>>, <<8008, 8013>>, <<8016, 8023>>, <<8025, 8025>>, <<8027, 8027>>,
      <<8029, 8029>>, <<8031, 8061>>, <<8064, 8116>>, <<8118, 8124>>, <<8126, 8126>>,
      <<8130, 8132>>, <<8134, 8140>>, <<8144, 8147>>, <<8150, 8155>>, <<8160, 8172>>,
      <<8178, 8180>>, <<8182, 8188>>, <<8204, 8205>>, <<8255, 8256>>, <<8276, 8276>>,
      <<8305, 8305>>, <<8319, 8319>>, <<8336, 8348>>, <<8400, 8432>>, <<8450, 8450>>,
      <<8455, 8455>>, <<8458, 8467>>, <<8469, 8469>>, <<8473, 8477>>, <<8484, 8484>>,
      <<8486, 8486>>, <<8488, 8488>>, <<8490, 8493>>, <<8495, 8505>>, <<8508, 8511>>,
      <<8517, 8521>>, <<8526, 8526>>, <<8544, 8584>>, <<9398, 9449>>, <<11264, 11492>>,
      <<11499, 11507>>, <<11520, 11557>>, <<11559, 11559>>, <<11565, 11565>>, <<11568, 11623>>,
      <<11631, 11631>>, <<11647, 11670>>, <<11680, 11686>>, <<11688, 11694>>, <<11696, 11702>>,
      <<11704, 11710>>, <<11712, 11718>>, <<11720, 11726>>, <<11728, 11734>>, <<11736, 11742>>,
      <<11744, 11775>>, <<11823, 11823>>, <<12293, 12295>>, <<12321, 12335>>, <<12337, 12341>>,
      <<12344, 12348>>, <<12353, 12438>>, <<12441, 12442>>, <<12445, 12447>>, <<12449, 12538>>,
      <<12540, 12543>>, <<12549, 12591>>, <<12593, 12686>>, <<12704, 12735>>, <<12784, 12799>>,
      <<13312, 19903>>, <<19968, 42124>>, <<42192, 42237>>, <<42240, 42508>>, <<42512, 42539>>,
      <<42560, 42610>>, <<42612, 42621>>, <<42623, 42737>>, <<42775, 42783>>, <<42786, 42888>>,
      <<42891, 42957>>, <<42960, 42961>>, <<42963, 42963>>, <<42965, 42972>>, <<42994, 43047>>,
      <<43052, 43052>>, <<43072, 43123>>, <<43136, 43205>>, <<43216, 43225>>, <<43232, 43255>>,
      <<43259, 43259>>, <<43261, 43309>>, <<43312, 43347>>, <<43360, 43388>>, <<43392, 43456>>,
      <<43471, 43481>>, <<43488, 43518>>, <<43520, 43574>>, <<43584, 43597>>, <<43600, 43609>>,
      <<43616, 43638>>, <<43642, 43714>>, <<43739, 43741>>, <<43744, 43759>>, <<43762, 43766>>,
      <<43777, 43782>>, <<43785, 43790>>, <<43793, 43798>>, <<43808, 43814>>, <<43816, 43822>>,
      <<43824, 43866>>, <<43868, 43881>>, <<43888, 44010>>, <<44012, 44013>>, <<44016, 44025>>,
      <<44032, 55203>>, <<55216, 55238>>, <<55243, 55291>>, <<63744, 64109>>, <<64112, 64217>>,
      <<64256, 64262>>, <<64275, 64279>>, <<64285, 64296>>, <<64298, 64310>>, <<64312, 64316>>,
      <<64318, 64318>>, <<64320, 64321>>, <<64323, 64324>>, <<64326, 64433>>, <<64467, 64829>>,
      <<64848, 64911>>, <<64914, 64967>>, <<65008, 65019>>, <<65024, 65039>>, <<65056, 65071>>,
      <<65075, 65076>>, <<65101, 65103>>, <<65136, 65140>>, <<65142, 65276>>, <<65296, 65305>>,
      <<65313, 65338>>, <<65343, 65343>>, <<65345, 65370>>, <<65382, 65470>>, <<65474, 65479>>,
      <<65482, 65487>>, <<65490, 65495>>, <<65498, 65500>>, <<65536, 65547>>, <<65549, 65574>>,
      <<65576, 65594>>, <<65596, 65597>>, <<65599, 65613>>, <<65616, 65629>>, <<65664, 65786>>,
      <<65856, 65908>>, <<66045, 66045>>, <<66176, 66204>>, <<66208, 66256>>, <<66272, 66272>>,
      <<66304, 66335>>, <<66349, 66378>>, <<66384, 66426>>, <<66432, 66461>>, <<66464, 66499>>,
      <<66504, 66511>>, <<66513, 66517>>, <<66560, 66717>>, <<66720, 66729>>, <<66736, 66771>>,
      <<66776, 66811>>, <<66816, 66855>>, <<66864, 66915>>, <<66928, 66938>>, <<66940, 66954>>,
      <<66956, 66962>>, <<66964, 66965>>, <<66967, 66977>>, <<66979, 66993>>, <<66995, 67001>>,
      <<67003, 67004>>, <<67008, 67059>>, <<67072, 67382>>, <<67392, 67413>>, <<67424, 67431>>,
      <<67456, 67461>>, <<67463, 67504>>, <<67506, 67514>>, <<67584, 67589>>, <<67592, 67592>>,
      <<67594, 67637>>, <<67639, 67640>>, <<67644, 67644>>, <<67647, 67669>>, <<67680, 67702>>,
      <<67712, 67742>>, <<67808, 67826>>, <<67828, 67829>>, <<67840, 67861>>, <<67872, 67897>>,
      <<67968, 68023>>, <<68030, 68031>>, <<68096, 68099>>, <<68101, 68102>>, <<68108, 68115>>,
      <<68117, 68119>>, <<68121, 68149>>, <<68152, 68154>>, <<68159, 68159>>, <<68192, 68220>>,
      <<68224, 68252>>, <<68288, 68295>>, <<68297, 68326>>, <<68352, 68405>>, <<68416, 68437>>,
      <<68448, 68466>>, <<68480, 68497>>, <<68608, 68680>>, <<68736, 68786>>, <<68800, 68850>>,
      <<68864, 68903>>, <<68912, 68921>>, <<68928, 68965>>, <<68969, 68973>>, <<68975, 68997>>,
      <<69248, 69289>>, <<69291, 69292>>, <<69296, 69297>>, <<69314, 69316>>, <<69372, 69404>>,
      <<69415, 69415>>, <<69424, 69456>>, <<69488, 69509>>, <<69552, 69572>>, <<69600, 69622>>,
      <<69632, 69702>>, <<69734, 69749>>, <<69759, 69818>>, <<69826, 69826>>, <<69840, 69864>>,
      <<69872, 69881>>, <<69888, 69940>>, <<69942, 69951>>, <<69956, 69959>>, <<69968, 70003>>,
      <<70006, 70006>>, <<70016, 70084>>, <<70089, 70092>>, <<70094, 70106>>, <<70108, 70108>>,
      <<70144, 70161>>, <<70163, 70199>>, <<70206, 70209>>, <<70272, 70278>>, <<70280, 70280>>,
      <<70282, 70285>>, <<70287, 70301>>, <<70303, 70312>>, <<70320, 70378>>, <<70384, 70393>>,
      <<70400, 70403>>, <<70405, 70412>>, <<70415, 70416>>, <<70419, 70440>>, <<70442, 70448>>,
      <<70450, 70451>>, <<70453, 70457>>, <<70459, 70468>>, <<70471, 70472>>, <<70475, 70477>>,
      <<70480, 70480>>, <<70487, 70487>>, <<70493, 70499>>, <<70502, 70508>>, <<70512, 70516>>,
      <<70528, 70537>>, <<70539, 70539>>, <<70542, 70542>>, <<70544, 70581>>, <<70583, 70592>>,
      <<70594, 70594>>, <<70597, 70597>>, <<70599, 70602>>, <<70604, 70611>>, <<70625, 70626>>,
      <<70656, 70730>>, <<70736, 70745>>, <<70750, 70753>>, <<70784, 70853>>, <<70855, 70855>>,
      <<70864, 70873>>, <<71040, 71093>>, <<71096, 71104>>, <<71128, 71133>>, <<71168, 71232>>,
      <<71236, 71236>>, <<71248, 71257>>, <<71296, 71352>>, <<71360, 71369>>, <<71376, 71395>>,
      <<71424, 71450>>, <<71453, 71467>>, <<71472, 71481>>, <<71488, 71494>>, <<71680, 71738>>,
      <<71840, 71913>>, <<71935, 71942>>, <<71945, 71945>>, <<71948, 71955>>, <<71957, 71958>>,
      <<71960, 71989>>, <<71991, 71992>>, <<71995, 72003>>, <<72016, 72025>>, <<72096, 72103>>,
      <<72106, 72151>>, <<72154, 72161>>, <<72163, 72164>>, <<72192, 72254>>, <<72263, 72263>>,
      <<72272, 72345>>, <<72349, 72349>>, <<72368, 72440>>, <<72640, 72672>>, <<72688, 72697>>,
      <<72704, 72712>>, <<72714, 72758>>, <<72760, 72768>>, <<72784, 72793>>, <<72818, 72847>>,
      <<72850, 72871>>, <<72873, 72886>>, <<72960, 72966>>, <<72968, 72969>>, <<72971, 73014>>,
      <<73018, 73018>>, <<73020, 73021>>, <<73023, 73031>>, <<73040, 73049>>, <<73056, 73061>>,
      <<73063, 73064>>, <<73066, 73102>>, <<73104, 73105>>, <<73107, 73112>>, <<73120, 73129>>,
      <<73440, 73462>>, <<73472, 73488>>, <<73490, 73530>>, <<73534, 73538>>, <<73552, 73562>>,
      <<73648, 73648>>, <<73728, 74649>>, <<74752, 74862>>, <<74880, 75075>>, <<77712, 77808>>,
      <<77824, 78895>>, <<78912, 78933>>, <<78944, 82938>>, <<82944, 83526>>, <<90368, 90425>>,
      <<92160, 92728>>, <<92736, 92766>>, <<92768, 92777>>, <<92784, 92862>>, <<92864, 92873>>,
      <<92880, 92909>>, <<92912, 92916>>, <<92928, 92982>>, <<92992, 92995>>, <<93008, 93017>>,
      <<93027, 93047>>, <<93053, 93071>>, <<93504, 93548>>, <<93552, 93561>>, <<93760, 93823>>,
      <<93952, 94026>>, <<94031, 94087>>, <<94095, 94111>>, <<94176, 94177>>, <<94179, 94180>>,
      <<94192, 94193>>, <<94208, 100343>>, <<100352, 101589>>, <<101631, 101640>>,
      <<110576, 110579>>, <<110581, 110587>>, <<110589, 110590>>, <<110592, 110882>>,
      <<110898, 110898>>, <<110928, 110930>>, <<110933, 110933>>, <<110948, 110951>>,
      <<110960, 111355>>, <<113664, 113770>>, <<113776, 113788>>, <<113792, 113800>>,
      <<113808, 113817>>, <<113821, 113822>>, <<118000, 118009>>, <<118528, 118573>>,
      <<118576, 118598>>, <<119141, 119145>>, <<119149, 119154>>, <<119163, 119170>>,
      <<119173, 119179>>, <<119210, 119213>>, <<119362, 119364>>, <<119808, 119892>>,
      <<119894, 119964>>, <<119966, 119967>>, <<119970, 119970>>, <<119973, 119974>>,
      <<119977, 119980>>, <<119982, 119993>>, <<119995, 119995>>, <<119997, 120003>>,
      <<120005, 120069>>, <<120071, 120074>>, <<120077, 120084>>, <<120086, 120092>>,
      <<120094, 120121>>, <<120123, 120126>>, <<120128, 120132>>, <<120134, 120134>>,
      <<120138, 120144>>, <<120146, 120485>>, <<120488, 120512>>, <<120514, 120538>>,
      <<120540, 120570>>, <<120572, 120596>>, <<120598, 120628>>, <<120630, 120654>>,
      <<120656, 120686>>, <<120688, 120712>>, <<120714, 120744>>, <<120746, 120770>>,
      <<120772, 120779>>, <<120782, 120831>>, <<121344, 121398>>, <<121403, 121452>>,
      <<121461, 121461>>, <<121476, 121476>>, <<121499, 121503>>, <<121505, 121519>>,
      <<122624, 122654>>, <<122661, 122666>>, <<122880, 122886>>, <<122888, 122904>>,
      <<122907, 122913>>, <<122915, 122916>>, <<122918, 122922>>, <<122928, 122989>>,
      <<123023, 123023>>, <<123136, 123180>>, <<123184, 123197>>, <<123200, 123209>>,
      <<123214, 123214>>, <<123536, 123566>>, <<123584, 123641>>, <<124112, 124153>>,
      <<124368, 124410>>, <<124896, 124902>>, <<124904, 124907>>, <<124909, 124910>>,
      <<124912, 124926>>, <<124928, 125124>>, <<125136, 125142>>, <<125184, 125259>>,
      <<125264, 125273>>, <<126464, 126467>>, <<126469, 126495>>, <<126497, 126498>>,
      <<126500, 126500>>, <<126503, 126503>>, <<126505, 126514>>, <<126516, 126519>>,
      <<126521, 126521>>, <<126523, 126523>>, <<126530, 126530>>, <<126535, 126535>>,
      <<126537, 126537>>, <<126539, 126539>>, <<126541, 126543>>, <<126545, 126546>>,
      <<126548, 126548>>, <<126551, 126551>>, <<126553, 126553>>, <<126555, 126555>>,
      <<126557, 126557>>, <<126559, 126559>>, <<126561, 126562>>, <<126564, 126564>>,
      <<126567, 126570>>, <<126572, 126578>>, <<126580, 126583>>, <<126585, 126588>>,
      <<126590, 126590>>, <<126592, 126601>>, <<126603, 126619>>, <<126625, 126627>>,
      <<126629, 126633>>, <<126635, 126651>>, <<127280, 127305>>, <<127312, 127337>>,
      <<127344, 127369>>, <<130032, 130041>>, <<131072, 173791>>, <<173824, 177977>>,
      <<177984, 178205>>, <<178208, 183969>>, <<183984, 191456>>, <<191472, 192093>>,
      <<194560, 195101>>, <<196608, 201546>>, <<201552, 205743>>, <<917760, 917999>>>>
\* whether ch is in one of the ranges lo..hi of the table (a binary search)
RECURSIVE InRanges(_, _, _)
InRanges(ch, lo, hi) ==
    IF lo > hi THEN FALSE
    ELSE LET mid == (lo + hi) \div 2
         IN  IF ch < PERL_WORD[mid][1] THEN InRanges(ch, lo, mid - 1)
             ELSE IF ch > PERL_WORD[mid][2] THEN InRanges(ch, mid + 1, hi)
             ELSE TRUE
\* (the first four ranges are those of ASCII: the word characters there
\* are kept as a set)
AsciiWord == UNION { PERL_WORD[i][1]..PERL_WORD[i][2] : i \in 1..4 }
IsWord(ch) ==
    IF ch <= PERL_WORD[4][2] THEN ch \in AsciiWord
    ELSE InRanges(ch, 5, Len(PERL_WORD))

(***************************************************************************)
(* str::parse::<String>() : infallible, the string itself.                 *)
(***************************************************************************)
ParseString(s) == Some(s)

(***************************************************************************)
(* str::parse::<i64>() : an optional sign, then one or more ASCII digits,  *)
(* in the range of i64.  The range test is made on the digits (the value   *)
(* itself is only computed for the magnitudes the sample inputs use).      *)
(***************************************************************************)
I64MaxDigits == Str(<<"9","2","2","3","3","7","2","0","3","6","8","5","4","7","7","5","8","0","7">>)
I64MinDigits == Str(<<"9","2","2","3","3","7","2","0","3","6","8","5","4","7","7","5","8","0","8">>)

RECURSIVE StripZeros(_)
StripZeros(s) ==
    IF Len(s) > 1 /\ s[1] = Chr("0") THEN StripZeros(Tail(s)) ELSE s

\* a <= b for digit strings without leading zeros
DigitsLeq(a, b) ==
    \/ Len(a) < Len(b)
    \/ /\ Len(a) = Len(b)
       /\ \/ a = b
          \/ \E i \in 1..Len(a) :
                /\ \A j \in 1..(i-1) : a[j] = b[j]
                /\ DigitVal(a[i]) < DigitVal(b[i])

RECURSIVE DecVal(_)
DecVal(s) ==
    IF s = <<>> THEN 0
    ELSE 10 * DecVal(SubSeq(s, 1, Len(s) - 1)) + DigitVal(s[Len(s)])

ParseI64(s) ==
    LET signed == Len(s) > 0 /\ s[1] \in {Chr("+"), Chr("-")}
        neg    == Len(s) > 0 /\ s[1] = Chr("-")
        body   == IF signed THEN Tail(s) ELSE s
    IN  IF body = <<>> \/ (\E i \in 1..Len(body) : ~IsDigit(body[i]))
        THEN None
        ELSE LET mag == StripZeros(body)
             IN  IF neg
                 THEN IF DigitsLeq(mag, I64MinDigits) THEN Some(0 - DecVal(mag)) ELSE None
                 ELSE IF DigitsLeq(mag, I64MaxDigits) THEN Some(DecVal(mag)) ELSE None

(***************************************************************************)
(* i64::to_string() and bool::to_string().                                 *)
(***************************************************************************)
RECURSIVE NatToString(_)
NatToString(n) ==
    IF n < 10 THEN <<DigitChars[n + 1]>>
    ELSE NatToString(n \div 10) \o <<DigitChars[(n % 10) + 1]>>

MinusSign == Str(<<"-">>)
I64ToString(n) == IF n < 0 THEN MinusSign \o NatToString(0 - n) ELSE NatToString(n)

TrueString == Str(<<"t","r","u","e">>)
FalseString == Str(<<"f","a","l","s","e">>)
BoolToString(b) == IF b THEN TrueString ELSE FalseString

(***************************************************************************)
(* user.rs: get_one, get_vec.  An entry's attrs is a function from the     *)
(* attribute names it has to their value lists.                            *)
(***************************************************************************)
\* get_one::<String> : entry.get(field).map(|f| f.get(0).unwrap().parse()) ;
\* the unwrap panics when the attribute is there with no value
get_one_String(attrs, field) ==
    IF field \notin DOMAIN attrs THEN Returned(None)
    ELSE IF attrs[field] = <<>> THEN Panicked
    ELSE Returned(ParseString(attrs[field][1]))

\* get_one::<i64> : the same, and a value that does not parse is None
get_one_i64(attrs, field) ==
    IF field \notin DOMAIN attrs THEN Returned(None)
    ELSE IF attrs[field] = <<>> THEN Panicked
    ELSE Returned(ParseI64(attrs[field][1]))

\* get_vec::<String> : v.iter().map(|f| f.parse().unwrap()).collect(), or
\* vec![] when the attribute is not there
get_vec_String(attrs, field) ==
    IF field \notin DOMAIN attrs THEN Returned(<<>>)
    ELSE IF \E i \in 1..Len(attrs[field]) : ~IsSome(ParseString(attrs[field][i]))
    THEN Panicked
    ELSE Returned([i \in 1..Len(attrs[field]) |-> ParseString(attrs[field][i])[1]])

(***************************************************************************)
(* user.rs: get_groups.  GROUP_REGEX is                                    *)
(*   cn=(?P<name>\w+),cn=groups,cn=accounts,dc=csh,dc=rit,dc=edu           *)
(* searched anywhere in the value (captures is unanchored); the capture is *)
(* that of the leftmost match.                                             *)
(***************************************************************************)
GroupPrefix == Str(<<"c","n","=">>)
GroupSuffix ==
    Str(<<",","c","n","=","g","r","o","u","p","s",",","c","n","=","a","c","c","o","u","n","t","s",
      ",","d","c","=","c","s","h",",","d","c","=","r","i","t",",","d","c","=","e","d","u">>)

HasAt(s, p, lit) ==
    /\ p >= 1
    /\ p + Len(lit) - 1 <= Len(s)
    /\ SubSeq(s, p, p + Len(lit) - 1) = lit

\* the last index of the longest run of \w characters that starts at p
\* (p - 1 when there is none)
WordRunEnd(s, p) ==
    CHOOSE q \in (p-1)..Len(s) :
        /\ \A i \in p..q : IsWord(s[i])
        /\ (q = Len(s) \/ ~IsWord(s[q + 1]))

\* \w+ is greedy and the literal after it starts with a comma, so a match
\* at p takes the whole run of \w characters after "cn=".
MatchAt(s, p) ==
    /\ HasAt(s, p, GroupPrefix)
    /\ LET q == WordRunEnd(s, p + 3)
       IN  q >= p + 3 /\ HasAt(s, q + 1, GroupSuffix)

\* GROUP_REGEX.captures(group).map(|cap| cap["name"].to_owned())
GroupCapture(s) ==
    IF \E p \in 1..Len(s) : MatchAt(s, p)
    THEN LET p == CHOOSE p \in 1..Len(s) :
                     MatchAt(s, p) /\ \A r \in 1..(p-1) : ~MatchAt(s, r)
         IN  Some(SubSeq(s, p + 3, WordRunEnd(s, p + 3)))
    ELSE None

\* (mutant) the groups collected in reverse order
RECURSIVE get_groups_reversed(_)
get_groups_reversed(member_of) ==
    IF member_of = <<>> THEN <<>>
    ELSE get_groups_reversed(Tail(member_of)) \o GroupCapture(Head(member_of))

\* member_of.iter().filter_map(..).collect()
RECURSIVE get_groups(_)
get_groups(member_of) ==
    IF member_of = <<>> THEN <<>>
    ELSE GroupCapture(Head(member_of)) \o get_groups(Tail(member_of))

(***************************************************************************)
(* user.rs: LdapUser::from_entry.  The struct's fields are evaluated in    *)
(* the order written; the first panic ends the decoding.                   *)
(***************************************************************************)
from_entry(entry) ==
    LET a        == entry.attrs
        cn       == get_one_String(a, "cn")
        uid      == get_one_String(a, "uid")
        memberOf == get_vec_String(a, "memberOf")
        krb      == get_one_String(a, "krbPrincipalName")
        mail     == get_vec_String(a, "mail")
        mobile   == get_vec_String(a, "mobile")
        ibutton  == get_vec_String(a, "ibutton")
        drink    == get_one_i64(a, "drinkBalance")
    IN  IF \/ cn.panicked \/ uid.panicked \/ memberOf.panicked \/ krb.panicked
           \/ mail.panicked \/ mobile.panicked \/ ibutton.panicked \/ drink.panicked
        THEN Panicked
        \* get_one(..).unwrap() on cn, uid, krbPrincipalName
        ELSE IF ~IsSome(cn.value) \/ ~IsSome(uid.value) \/ ~IsSome(krb.value)
        THEN Panicked
        ELSE Returned([dn               |-> entry.dn,
                       cn               |-> cn.value[1],
                       uid              |-> uid.value[1],
                       groups           |-> get_groups(memberOf.value),
                       krbPrincipalName |-> krb.value[1],
                       mail             |-> mail.value,
                       mobile           |-> mobile.value,
                       ibutton          |-> ibutton.value,
                       drinkBalance     |-> drink.value])

(***************************************************************************)
(* client.rs: the filters, built by format! from the caller's value.       *)
(***************************************************************************)
SearchBase == "cn=users,cn=accounts,dc=csh,dc=rit,dc=edu"

\* format!("(|(uid=*{query}*)(cn=*{query}*))")
UidOrCnHead == Str(<<"(","|","(","u","i","d","=","*">>)
UidOrCnMid == Str(<<"*",")","(","c","n","=","*">>)
UidOrCnTail == Str(<<"*",")",")">>)
search_users_filter(query) ==
    UidOrCnHead \o query \o UidOrCnMid \o query \o UidOrCnTail
\* format!("uid={uid}")
UidEq == Str(<<"u","i","d","=">>)
get_user_filter(uid) == UidEq \o uid
\* format!("ibutton={ibutton}")
IbuttonEq == Str(<<"i","b","u","t","t","o","n","=">>)
get_user_by_ibutton_filter(ibutton) == IbuttonEq \o ibutton
\* format!("mobile={phone}")
MobileEq == Str(<<"m","o","b","i","l","e","=">>)
get_user_by_phone_filter(phone) == MobileEq \o phone

\* format!-free: the filter of _do_not_use_get_all_users is a literal
get_all_users_filter ==
    Str(<<"(","o","b","j","e","c","t","C","l","a","s","s","=","c","s","h","M","e","m","b","e","r",")">>)

\* ldap.with_timeout(Duration::from_secs(5)) before the search, or none
TimeoutSecs == 5
SearchRequest(filter, timeout) ==
    [kind |-> "search", base |-> SearchBase, scope |-> "Subtree", filter |-> filter,
     timeout |-> timeout]

(***************************************************************************)
(* A reply of the server to a search or a modify: the call itself fails    *)
(* (I/O error, the 5 s timeout), or it yields a result code and, for a     *)
(* search, the entries.  SearchResult::success() is Ok for the result      *)
(* code success (0) alone, and an error for any other, referral (10)       *)
(* included.                                                               *)
(***************************************************************************)
SuccessCodes == { "success" }

\* (an error carries no result code: rc and entries are then unused)
IoError == [kind |-> "io_error", rc |-> "", entries |-> <<>>]
\* LdapError::Timeout: the time set by with_timeout ran out
Timeout == [kind |-> "timeout", rc |-> "", entries |-> <<>>]
LdapReply(rc, entries) == [kind |-> "result", rc |-> rc, entries |-> entries]

\* ldap.search(..).await.unwrap().success().unwrap() : the entries, or a panic
search_unwrap(reply) ==
    IF reply.kind # "result" THEN Panicked
    ELSE IF reply.rc \notin SuccessCodes THEN Panicked
    ELSE Returned(reply.entries)

\* results.iter().map(|result| LdapUser::from_entry(..)).collect()
decode_all(results) ==
    IF \E i \in 1..Len(results) : from_entry(results[i]).panicked
    THEN Panicked
    ELSE Returned([i \in 1..Len(results) |-> from_entry(results[i]).value])

\* if results.len() == 1 { Some(LdapUser::from_entry(results[0])) } else { None }
exactly_one(results) ==
    IF Len(results) = 1
    THEN IF from_entry(results[1]).panicked
         THEN Panicked
         ELSE Returned(Some(from_entry(results[1]).value))
    ELSE Returned(None)

\* the return value (or panic) of search_users after the search replied
search_users_return(reply) ==
    IF search_unwrap(reply).panicked THEN Panicked
    ELSE decode_all(search_unwrap(reply).value)

\* the return value (or panic) of get_user, get_user_by_ibutton and
\* get_user_by_phone after the search replied
lookup_return(reply) ==
    IF search_unwrap(reply).panicked THEN Panicked
    ELSE exactly_one(search_unwrap(reply).value)

(***************************************************************************)
(* client.rs: the modify requests.  A Mod::Replace carries the attribute   *)
(* and a HashSet of values.                                                *)
(***************************************************************************)
Replace(attr, vals) == [op |-> "Replace", attr |-> attr, vals |-> vals]

\* (mutant) ibutton replaced even when the change set has none
update_user_changes_all(change_set) ==
    (IF IsSome(change_set.drinkBalance)
     THEN <<Replace("drinkBalance", {I64ToString(change_set.drinkBalance[1])})>>
     ELSE <<>>)
    \o
    <<Replace("ibutton",
              IF IsSome(change_set.ibutton)
              THEN {change_set.ibutton[1][i] : i \in 1..Len(change_set.ibutton[1])}
              ELSE {})>>

\* the changes vector built by update_user
update_user_changes(change_set) ==
    (IF IsSome(change_set.drinkBalance)
     THEN <<Replace("drinkBalance", {I64ToString(change_set.drinkBalance[1])})>>
     ELSE <<>>)
    \o
    (IF IsSome(change_set.ibutton)
     THEN <<Replace("ibutton",
                    {change_set.ibutton[1][i] : i \in 1..Len(change_set.ibutton[1])})>>
     ELSE <<>>)

\* the changes vector built by set_user_nslock
set_user_nslock_changes(locked) == <<Replace("nsAccountLock", {BoolToString(locked)})>>

ModifyRequest(dn, changes) ==
    [kind |-> "modify", dn |-> dn, mods |-> changes, timeout |-> None]

\* match ldap.modify(..).await { Ok(_) => {}, Err(e) => eprintln!(..) } :
\* whether a line goes to stderr; the function returns () either way
modify_logs(reply) == reply.kind # "result"
modify_return(reply) == Returned(<<>>)

(***************************************************************************)
(* client.rs: get_ldap_servers.  resolver.srv_lookup(..) gives an error    *)
(* (the resolver's error when it finds no record included), or the SRV     *)
(* records, each with a target host; the unwrap panics on the error.       *)
(***************************************************************************)
SrvErr(why) == [ok |-> FALSE, why |-> why, targets |-> <<>>]
SrvOk(targets) == [ok |-> TRUE, why |-> "", targets |-> targets]
\* no lookup was made yet
NoLookup == SrvErr("none")

\* str::trim_end_matches('.')
RECURSIVE trim_end_matches_dot(_)
trim_end_matches_dot(s) ==
    IF s # <<>> /\ s[Len(s)] = Chr(".")
    THEN trim_end_matches_dot(SubSeq(s, 1, Len(s) - 1))
    ELSE s

\* format!("ldaps://{}", record.target().to_string().trim_end_matches('.'))
LdapsScheme == Str(<<"l","d","a","p","s",":","/","/">>)
server_uri(target) == LdapsScheme \o trim_end_matches_dot(target)

get_ldap_servers(response) ==
    IF ~response.ok THEN Panicked
    ELSE Returned([i \in 1..Len(response.targets) |-> server_uri(response.targets[i])])

(***************************************************************************)
(* The pool: deadpool's managed::Pool<LdapManager> built with max_size(5). *)
(*                                                                         *)
(* Pool::get (deadpool 0.9) acquires a permit of a semaphore of max_size    *)
(* permits, then loops: pop the oldest idle connection and recycle it      *)
(* (a connection whose recycle fails is dropped and the loop goes on), or, *)
(* with none idle, create one.  Dropping the Object that get returned      *)
(* pushes the connection to the back of the idle queue and adds a permit.  *)
(*                                                                         *)
(* The callers are tasks that each own a clone of the LdapClient; they     *)
(* differ in nothing but where they stand, so they are kept as a bag of    *)
(* task records.  An unwrap that fails panics: the panic unwinds the task  *)
(* that called (dropping what it holds) and the other tasks go on.         *)
(***************************************************************************)
max_size == 5

ExtraCallers == 1
MaxConns == 6
MaxClones == 5

VARIABLES
    tasks,      \* the callers: a bag of records
                \*   id     : the LdapClient value the task calls through
                \*            (0 for every task when nothing tells the
                \*            callers apart)
                \*   pc     : where the task's operation stands
                \*   op     : the operation it called, with its arguments
                \*   conn   : the connection it holds or recycles (0: none)
                \*   server : the endpoint create() picked (<<>>: none)
    idle,       \* the pool's slots.vec: the idle connections, oldest first
    size,       \* the pool's slots.size: connections created and not dropped
    permits,    \* the pool's semaphore
    nextId,     \* the identity of the next connection create() makes
    destroyed,  \* the connections the pool dropped (their recycle failed,
                \* or their checkout was abandoned during the recycle)
    out,        \* the call that ended last: what it sent, what the server
                \* replied, what it wrote to stderr, and what its caller got
    dec,        \* a decoding on its own: the input of from_entry or of
                \* get_groups, and the output once it has run
    srv,        \* what the SRV lookup of LdapManager::new gave
    ldap_servers, \* LdapManager.ldap_servers
    clients,    \* the LdapClient values there are: new() makes the first,
                \* clone() the others; ldap is the Arc's pointer to the pool
    timed_out   \* the live connections on which a search ran into the
                \* time set by with_timeout

vars == <<tasks, idle, size, permits, nextId, destroyed, out, dec,
          srv, ldap_servers, clients, timed_out>>

NoChangeSet == [dn |-> "", drinkBalance |-> None, ibutton |-> None]
Op(kind, arg, dn, change_set) ==
    [kind |-> kind, arg |-> arg, dn |-> dn, change_set |-> change_set]
NoOp == Op("none", <<>>, "", NoChangeSet)

\* what a call is to its caller: a value returned, or a panic (and where);
\* a call whose future the caller dropped gives it nothing
PanicAt(at) == [status |-> "panicked", at |-> at, value |-> <<>>]
ReturnOf(v) == [status |-> "returned", at |-> "", value |-> v]
Cancelled(at) == [status |-> "cancelled", at |-> at, value |-> <<>>]
ResultOf(o, at) == IF o.panicked THEN PanicAt(at) ELSE ReturnOf(o.value)

Outcome(by, op, sent, reply, logged, result) ==
    [by |-> by, op |-> op, sent |-> sent, reply |-> reply, logged |-> logged,
     result |-> result]
NoOutcome ==
    Outcome(0, NoOp, <<>>, <<>>, FALSE, [status |-> "none", at |-> "", value |-> <<>>])

NewTask(id) == [id |-> id, pc |-> "idle", op |-> NoOp, conn |-> 0, server |-> <<>>]

Tasks == BagToSet(tasks)
\* task t moves to t2
Becomes(t, t2) == tasks' = (tasks (-) SetToBag({t})) (+) SetToBag({t2})

\* the number of tasks, with multiplicity, among the task records S
CountIn(S) ==
    LET RECURSIVE Sum(_)
        Sum(R) == IF R = {} THEN 0
                  ELSE LET t == CHOOSE t \in R : TRUE
                       IN  CopiesIn(t, tasks) + Sum(R \ {t})
    IN  Sum(S \cap Tasks)

Range(q) == { q[i] : i \in 1..Len(q) }

\* no decoding on its own is under way
NoDecoding ==
    [fn |-> "none", entry |-> [dn |-> "", attrs |-> <<>>], member_of |-> <<>>,
     done |-> FALSE, user |-> Returned(<<>>), groups |-> <<>>]

\* the SRV records' targets of the sample runs
HostA == Str(<<"a",".">>)
HostB == Str(<<"b",".">>)

\* LdapClient::new returned: the manager has the servers of the lookup and
\* the one LdapClient points to the pool (1)
Built(response) ==
    /\ srv = response
    /\ ldap_servers = get_ldap_servers(response).value
    /\ clients = <<[ldap |-> 1]>>

EmptyPool ==
    /\ idle = <<>>
    /\ size = 0
    /\ permits = max_size
    /\ nextId = 1
    /\ destroyed = {}
    /\ timed_out = {}
    /\ out = NoOutcome
    /\ dec = NoDecoding

InitPool ==
    /\ EmptyPool
    /\ Built(SrvOk(<<HostA>>))

Init ==
    /\ tasks = [t \in {NewTask(0)} |-> max_size + ExtraCallers]
    /\ InitPool

(***************************************************************************)
(* LdapClient::new : the SRV lookup, the manager, the pool of max_size 5.  *)
(***************************************************************************)
\* get_ldap_servers().await panics, and no client is made; or the client
\* is made with the servers it gave, however many
LdapClient_new(response) ==
    /\ srv = NoLookup
    /\ srv' = response
    /\ IF get_ldap_servers(response).panicked
       THEN UNCHANGED <<ldap_servers, clients>>
       ELSE /\ ldap_servers' = get_ldap_servers(response).value
            /\ clients' = <<[ldap |-> 1]>>
    /\ UNCHANGED <<tasks, idle, size, permits, nextId, destroyed, out, dec, timed_out>>

\* (mutant) the clone gets a pool of its own
Clone_deep ==
    /\ clients # <<>>
    /\ Len(clients) <= MaxClones
    /\ clients' = Append(clients, [ldap |-> Len(clients) + 1])
    /\ tasks' = tasks (+) SetToBag({NewTask(2)})
    /\ UNCHANGED <<idle, size, permits, nextId, destroyed, out, dec,
                   srv, ldap_servers, timed_out>>

\* #[derive(Clone)] on LdapClient: the Arc is cloned, the pointer copied;
\* a task goes on to call through the clone
Clone ==
    /\ Len(clients) <= MaxClones
    /\ \E i \in 1..Len(clients) : clients' = Append(clients, clients[i])
    /\ tasks' = tasks (+) SetToBag({NewTask(2)})
    /\ UNCHANGED <<idle, size, permits, nextId, destroyed, out, dec,
                   srv, ldap_servers, timed_out>>

(***************************************************************************)
(* self.ldap.get().await : wait for a permit; then take the oldest idle    *)
(* connection and recycle it, or create one when none is idle.             *)
(***************************************************************************)
\* a task calls an operation of its client
Call(o) ==
    \E t \in Tasks :
        /\ clients # <<>>
        /\ t.pc = "idle"
        /\ Becomes(t, [t EXCEPT !.pc = "waiting", !.op = o])
        /\ UNCHANGED <<idle, size, permits, nextId, destroyed, out, dec,
                       srv, ldap_servers, clients, timed_out>>

\* ldap_servers.choose(&mut rng): what it may give, any element of the list
\* or None (<<>>) when the list is empty
choose(list) == IF list = <<>> THEN { <<>> } ELSE Range(list)

\* (mutant) the idle connection is handed on without leaving the queue
TakeSlot_peek(t) ==
    IF idle # <<>>
    THEN /\ Becomes(t, [t EXCEPT !.pc = "recycling", !.conn = Head(idle)])
         /\ idle' = idle
    ELSE /\ \E s \in choose(ldap_servers) :
               Becomes(t, [t EXCEPT !.pc = "creating", !.conn = 0, !.server = s])
         /\ idle' = idle

\* slots.vec.pop_front(): recycle what it gives, create when it is None;
\* LdapManager::create starts with ldap_servers.choose(..)
TakeSlot(t) ==
    IF idle # <<>>
    THEN /\ Becomes(t, [t EXCEPT !.pc = "recycling", !.conn = Head(idle)])
         /\ idle' = Tail(idle)
    ELSE /\ \E s \in choose(ldap_servers) :
               Becomes(t, [t EXCEPT !.pc = "creating", !.conn = 0, !.server = s])
         /\ idle' = idle

\* (mutant) no permit is waited for
Acquire_nopermit ==
    \E t \in Tasks :
        /\ t.pc = "waiting"
        /\ permits' = permits - 1
        /\ TakeSlot(t)
        /\ UNCHANGED <<size, nextId, destroyed, out, dec,
                       srv, ldap_servers, clients, timed_out>>

\* semaphore.acquire() returns
Acquire ==
    \E t \in Tasks :
        /\ t.pc = "waiting"
        /\ permits > 0
        /\ permits' = permits - 1
        /\ TakeSlot(t)
        /\ UNCHANGED <<size, nextId, destroyed, out, dec,
                       srv, ldap_servers, clients, timed_out>>

\* LdapManager::recycle : the WhoAmI extended operation succeeds
RecycleOk ==
    \E t \in Tasks :
        /\ t.pc = "recycling"
        /\ Becomes(t, [t EXCEPT !.pc = "holding"])
        /\ UNCHANGED <<idle, size, permits, nextId, destroyed, out, dec,
                       srv, ldap_servers, clients, timed_out>>

\* (mutant) the error of WhoAmI is ignored and the connection handed out
RecycleFail_ignored ==
    \E t \in Tasks :
        /\ t.pc = "recycling"
        /\ destroyed' = destroyed \cup {t.conn}
        /\ Becomes(t, [t EXCEPT !.pc = "holding"])
        /\ UNCHANGED <<idle, size, permits, nextId, out, dec,
                       srv, ldap_servers, clients, timed_out>>

\* the call of task t ends: its caller gets the result, and the task is
\* free to make another call
Ends(t, sent, reply, logged, result) ==
    /\ Becomes(t, NewTask(t.id))
    /\ out' = Outcome(t.id, t.op, sent, reply, logged, result)

\* (mutant) the error of WhoAmI goes to the caller of get()
RecycleFail_reported ==
    \E t \in Tasks :
        /\ t.pc = "recycling"
        /\ size' = size - 1
        /\ destroyed' = destroyed \cup {t.conn}
        /\ timed_out' = timed_out \ {t.conn}
        /\ permits' = permits + 1
        /\ Ends(t, <<>>, <<>>, FALSE, PanicAt("recycle"))
        /\ UNCHANGED <<idle, nextId, dec, srv, ldap_servers, clients>>

\* LdapManager::recycle : WhoAmI fails (the ? returns the error); the pool
\* drops the connection and goes round its loop
RecycleFail ==
    \E t \in Tasks :
        /\ t.pc = "recycling"
        /\ size' = size - 1
        /\ destroyed' = destroyed \cup {t.conn}
        /\ timed_out' = timed_out \ {t.conn}
        /\ TakeSlot(t)
        /\ UNCHANGED <<permits, nextId, out, dec, srv, ldap_servers, clients>>

\* LdapManager::create : connect and bind succeed; the pool counts the
\* connection and hands it out
CreateOk ==
    \E t \in Tasks :
        /\ t.pc = "creating"
        /\ t.server # <<>>
        /\ nextId <= MaxConns
        /\ Becomes(t, [t EXCEPT !.pc = "holding", !.conn = nextId, !.server = <<>>])
        /\ nextId' = nextId + 1
        /\ size' = size + 1
        /\ UNCHANGED <<idle, permits, destroyed, out, dec,
                       srv, ldap_servers, clients, timed_out>>

\* (mutant) a creation that failed is tried again on another server
CreateFail_retry(step) ==
    \E t \in Tasks :
        /\ t.pc = "creating"
        /\ \E s \in Range(ldap_servers) \ {t.server} :
              Becomes(t, [t EXCEPT !.server = s])
        /\ UNCHANGED <<idle, size, permits, nextId, destroyed, out, dec,
                       srv, ldap_servers, clients, timed_out>>

\* LdapManager::create : choose(..).unwrap() panics (the list is empty), or
\* LdapConnAsync::new(..).await.unwrap() or simple_bind(..).await.unwrap()
\* panics; unwinding out of get() drops the permit, which goes back to the
\* semaphore
CreateFail(step) ==
    \E t \in Tasks :
        /\ t.pc = "creating"
        /\ step = "choose" <=> t.server = <<>>
        /\ Ends(t, <<>>, <<>>, FALSE, PanicAt(step))
        /\ permits' = permits + 1
        /\ UNCHANGED <<idle, size, nextId, destroyed, dec,
                       srv, ldap_servers, clients, timed_out>>

\* (mutant) the Object dropped gives the connection back but no permit
ReturnObject_nopermit(t) ==
    /\ idle' = Append(idle, t.conn)
    /\ permits' = permits
    /\ UNCHANGED <<size, nextId, destroyed, dec, srv, ldap_servers, clients>>

\* the Object is dropped (at the end of the function, or while a panic
\* unwinds): the connection goes to the back of the idle queue and a
\* permit is added
ReturnObject(t) ==
    /\ idle' = Append(idle, t.conn)
    /\ permits' = permits + 1
    /\ UNCHANGED <<size, nextId, destroyed, dec, srv, ldap_servers, clients>>

\* (mutant) a call that panics takes its connection with it
Finish_leak(t, req, rep, logged, result) ==
    /\ Ends(t, <<req>>, <<rep>>, logged, result)
    /\ IF result.status = "panicked"
       THEN UNCHANGED <<idle, size, permits, nextId, destroyed, dec,
                        srv, ldap_servers, clients, timed_out>>
       ELSE ReturnObject(t) /\ timed_out' = timed_out

\* (mutant) a search that ran into its timeout closes the connection
Finish_disconnect(t, req, rep, logged, result) ==
    /\ Ends(t, <<req>>, <<rep>>, logged, result)
    /\ IF rep.kind = "timeout"
       THEN /\ size' = size - 1
            /\ permits' = permits + 1
            /\ destroyed' = destroyed \cup {t.conn}
            /\ timed_out' = timed_out \ {t.conn}
            /\ UNCHANGED <<idle, nextId, dec, srv, ldap_servers, clients>>
       ELSE ReturnObject(t) /\ timed_out' = timed_out

\* an operation on the held connection ends: it returns or panics, and
\* its Object is dropped.  A search that ran into the timeout set by
\* with_timeout gives up its reply; the connection stays open.
Finish(t, req, rep, logged, result) ==
    /\ Ends(t, <<req>>, <<rep>>, logged, result)
    /\ ReturnObject(t)
    /\ timed_out' = IF rep.kind = "timeout"
                    THEN timed_out \cup {t.conn}
                    ELSE timed_out

\* where a search operation panics, if it does
SearchPanicAt(rep) == IF search_unwrap(rep).panicked THEN "search" ELSE "from_entry"

(***************************************************************************)
(* The caller drops the future of its call while get() is at an await:     *)
(* the wait for a permit leaves the semaphore's queue; past it, the permit *)
(* is dropped (it goes back), and so is a connection under recycle.        *)
(***************************************************************************)
\* (mutant) the abandoned wait keeps a permit reserved
CancelWaiting_leak ==
    \E t \in Tasks :
        /\ t.pc = "waiting"
        /\ Ends(t, <<>>, <<>>, FALSE, Cancelled("waiting"))
        /\ permits' = permits - 1
        /\ UNCHANGED <<idle, size, nextId, destroyed, dec,
                       srv, ldap_servers, clients, timed_out>>

CancelWaiting ==
    \E t \in Tasks :
        /\ t.pc = "waiting"
        /\ Ends(t, <<>>, <<>>, FALSE, Cancelled("waiting"))
        /\ UNCHANGED <<idle, size, permits, nextId, destroyed, dec,
                       srv, ldap_servers, clients, timed_out>>

CancelRecycling ==
    \E t \in Tasks :
        /\ t.pc = "recycling"
        /\ Ends(t, <<>>, <<>>, FALSE, Cancelled("recycle"))
        /\ size' = size - 1
        /\ destroyed' = destroyed \cup {t.conn}
        /\ timed_out' = timed_out \ {t.conn}
        /\ permits' = permits + 1
        /\ UNCHANGED <<idle, nextId, dec, srv, ldap_servers, clients>>

CancelCreating ==
    \E t \in Tasks :
        /\ t.pc = "creating"
        /\ Ends(t, <<>>, <<>>, FALSE, Cancelled("create"))
        /\ permits' = permits + 1
        /\ UNCHANGED <<idle, size, nextId, destroyed, dec,
                       srv, ldap_servers, clients, timed_out>>

(***************************************************************************)
(* The operations of LdapClient, from the checkout on.                     *)
(***************************************************************************)
search_users(rep) ==
    \E t \in Tasks :
        /\ t.pc = "holding" /\ t.op.kind = "search_users"
        /\ Finish(t, SearchRequest(search_users_filter(t.op.arg), Some(TimeoutSecs)), rep, FALSE,
                  ResultOf(search_users_return(rep), SearchPanicAt(rep)))

\* the search of every member: no with_timeout, so no time runs out
_do_not_use_get_all_users(rep) ==
    \E t \in Tasks :
        /\ t.pc = "holding" /\ t.op.kind = "_do_not_use_get_all_users"
        /\ rep.kind # "timeout"
        /\ Finish(t, SearchRequest(get_all_users_filter, None), rep, FALSE,
                  ResultOf(search_users_return(rep), SearchPanicAt(rep)))

get_user(rep) ==
    \E t \in Tasks :
        /\ t.pc = "holding" /\ t.op.kind = "get_user"
        /\ Finish(t, SearchRequest(get_user_filter(t.op.arg), Some(TimeoutSecs)), rep, FALSE,
                  ResultOf(lookup_return(rep), SearchPanicAt(rep)))

get_user_by_ibutton(rep) ==
    \E t \in Tasks :
        /\ t.pc = "holding" /\ t.op.kind = "get_user_by_ibutton"
        /\ Finish(t, SearchRequest(get_user_by_ibutton_filter(t.op.arg), Some(TimeoutSecs)), rep, FALSE,
                  ResultOf(lookup_return(rep), SearchPanicAt(rep)))

get_user_by_phone(rep) ==
    \E t \in Tasks :
        /\ t.pc = "holding" /\ t.op.kind = "get_user_by_phone"
        /\ Finish(t, SearchRequest(get_user_by_phone_filter(t.op.arg), Some(TimeoutSecs)), rep, FALSE,
                  ResultOf(lookup_return(rep), SearchPanicAt(rep)))

update_user(rep) ==
    \E t \in Tasks :
        /\ t.pc = "holding" /\ t.op.kind = "update_user"
        /\ Finish(t, ModifyRequest(t.op.change_set.dn, update_user_changes(t.op.change_set)),
                  rep, modify_logs(rep), ResultOf(modify_return(rep), "modify"))

\* deactivate_user(dn) is set_user_nslock(dn, true), activate_user(dn) is
\* set_user_nslock(dn, false)
set_user_nslock(rep) ==
    \E t \in Tasks :
        /\ t.pc = "holding" /\ t.op.kind \in {"deactivate_user", "activate_user"}
        /\ Finish(t, ModifyRequest(t.op.dn,
                                   set_user_nslock_changes(t.op.kind = "deactivate_user")),
                  rep, modify_logs(rep), ResultOf(modify_return(rep), "modify"))

(***************************************************************************)
(* Concurrent callers sharing the pool.                                    *)
(***************************************************************************)
PoolOps == { Op("search_users", Str(<<"j">>), "", NoChangeSet) }
PoolReplies == { IoError, LdapReply("success", <<>>) }
CreateSteps == { "choose", "connect", "bind" }

Next ==
    \/ \E o \in PoolOps : Call(o)
    \/ Acquire
    \/ RecycleOk
    \/ RecycleFail
    \/ CreateOk
    \/ \E step \in CreateSteps : CreateFail(step)
    \/ \E rep \in PoolReplies : search_users(rep)

Spec == Init /\ [][Next]_vars

(***************************************************************************)
(* Sample directory data.                                                  *)
(***************************************************************************)
GroupDn(name) == GroupPrefix \o name \o GroupSuffix

G_rtp == GroupDn(Str(<<"r","t","p">>))
G_3da == GroupDn(Str(<<"3","d","a">>))
\* an entry of the users subtree: no group
G_user == Str(<<"c","n","=","j","d","o","e",",","c","n","=","u","s","e","r","s",",","c","n","=","a","c","c","o","u","n","t","s",",","d","c","=","c","s","h",",","d","c","=","r","i","t",",","d","c","=","e","d","u">>)
\* a hyphen is no \w character
G_hyphen == GroupDn(Str(<<"a","c","t","i","v","e","-","r","t","p">>))
\* the pattern is found inside a longer value
G_nested == Str(<<"u","i","d","=","x",",">>) \o GroupDn(Str(<<"e","b","_","1">>)) \o Str(<<"c","a","t","i","o","n">>)
\* an empty group name
G_empty == GroupDn(<<>>)

\* a name with a letter beyond ASCII: caf and e with acute (U+00E9)
G_cafe == GroupDn(Str(<<"c","a","f">>) \o <<233>>)

\* a name of one mark that Unicode has had since 15.0: LAO YAMAKKAN (U+0ECE)
G_lao == GroupDn(<<3790>>)
\* the multiplication sign (U+00D7) is no \w character
G_times == GroupDn(Str(<<"a">>) \o <<215>> \o Str(<<"b">>))

GroupSamples == { G_rtp, G_3da, G_user, G_hyphen, G_nested, G_empty, G_cafe, G_lao, G_times }

MaxMemberOf == 3
MaxEntries == 2

\* the sequences over S of length at most n
RECURSIVE SeqsUpTo(_, _)
SeqsUpTo(S, n) ==
    IF n = 0 THEN { <<>> }
    ELSE SeqsUpTo(S, n - 1) \cup
         { Append(q, x) : q \in { r \in SeqsUpTo(S, n - 1) : Len(r) = n - 1 }, x \in S }

\* an attribute with its values, or (absent) nothing
Attr(name, choice) == IF choice = <<"absent">> THEN <<>> ELSE name :> choice[2]
Absent == <<"absent">>
Values(vs) == <<"present", vs>>

EntryOf(dn, cn, uid, krb, memberOf, contact, drink) ==
    [dn |-> dn,
     attrs |-> Attr("cn", cn) @@ Attr("uid", uid) @@ Attr("krbPrincipalName", krb)
               @@ Attr("memberOf", memberOf) @@ Attr("mail", contact)
               @@ Attr("mobile", contact) @@ Attr("ibutton", contact)
               @@ Attr("drinkBalance", drink)]

DnA == "uid=jdoe,cn=users,cn=accounts,dc=csh,dc=rit,dc=edu"
DnB == "uid=asmith,cn=users,cn=accounts,dc=csh,dc=rit,dc=edu"

\* every combination of these choices for the attributes of an entry
DecodeEntries ==
    { EntryOf(DnA, cn, uid, krb, memberOf, contact, drink) :
        cn \in { Absent, Values(<<>>), Values(<<Str(<<"J","o">>)>>), Values(<<Str(<<"J","o">>), Str(<<"A","l">>)>>) },
        uid \in { Absent, Values(<<Str(<<"j","d","o","e">>)>>), Values(<<Str(<<"j","d","o","e">>), Str(<<"j","d">>)>>) },
        krb \in { Absent, Values(<<Str(<<"j","d","o","e","@","C">>)>>) },
        memberOf \in { Absent, Values(<<G_rtp, G_user, G_nested>>) },
        contact \in { Absent, Values(<<Str(<<"a","@","b">>), Str(<<"c","@","d">>)>>) },
        drink \in { Absent, Values(<<>>), Values(<<Str(<<"4","2">>)>>), Values(<<Str(<<"x">>)>>),
                    Values(<<Str(<<"-","7">>), Str(<<"3">>)>>) } }

(***************************************************************************)
(* from_entry and get_groups on their own, on every sample input.          *)
(***************************************************************************)
InitDecode ==
    /\ tasks = [t \in {NewTask(0)} |-> 1]
    /\ idle = <<>> /\ size = 0 /\ permits = max_size /\ nextId = 1
    /\ destroyed = {} /\ timed_out = {} /\ out = NoOutcome
    /\ Built(SrvOk(<<HostA>>))
    /\ \/ \E e \in DecodeEntries :
             dec = [NoDecoding EXCEPT !.fn = "from_entry", !.entry = e]
       \/ \E l \in SeqsUpTo(GroupSamples, MaxMemberOf) :
             dec = [NoDecoding EXCEPT !.fn = "get_groups", !.member_of = l]

DecodeEntry ==
    /\ dec.fn = "from_entry" /\ ~dec.done
    /\ dec' = [dec EXCEPT !.done = TRUE, !.user = from_entry(dec.entry)]
    /\ UNCHANGED <<tasks, idle, size, permits, nextId, destroyed, out,
                   srv, ldap_servers, clients, timed_out>>

DecodeGroups ==
    /\ dec.fn = "get_groups" /\ ~dec.done
    /\ dec' = [dec EXCEPT !.done = TRUE, !.groups = get_groups(dec.member_of)]
    /\ UNCHANGED <<tasks, idle, size, permits, nextId, destroyed, out,
                   srv, ldap_servers, clients, timed_out>>

NextDecode == DecodeEntry \/ DecodeGroups

SpecDecode == InitDecode /\ [][NextDecode]_vars

(***************************************************************************)
(* One caller, every operation, on sample requests and replies.            *)
(***************************************************************************)
E_full ==
    EntryOf(DnA, Values(<<Str(<<"J","o">>)>>), Values(<<Str(<<"j","d","o","e">>)>>), Values(<<Str(<<"j","d","o","e","@","C">>)>>),
            Values(<<G_rtp, G_user>>), Values(<<Str(<<"a","@","b">>)>>), Values(<<Str(<<"4","2">>)>>))
E_min ==
    EntryOf(DnB, Values(<<Str(<<"A","l">>)>>), Values(<<Str(<<"a","s","m","i","t","h">>)>>), Values(<<Str(<<"a","s","@","C">>)>>),
            Absent, Absent, Absent)
\* a malformed entry: drinkBalance present with no value
E_nodrink ==
    EntryOf(DnB, Values(<<Str(<<"A","l">>)>>), Values(<<Str(<<"a","s","m","i","t","h">>)>>), Values(<<Str(<<"a","s","@","C">>)>>),
            Absent, Absent, Values(<<>>))

OpsEntries == { E_full, E_min, E_nodrink }

SearchReplies ==
    { IoError, Timeout, LdapReply("noSuchObject", <<>>), LdapReply("sizeLimitExceeded", <<E_full>>),
      LdapReply("referral", <<>>) }
    \cup { LdapReply("success", l) : l \in SeqsUpTo(OpsEntries, MaxEntries) }

ModifyReplies ==
    { IoError, LdapReply("success", <<>>), LdapReply("noSuchObject", <<>>) }

ChangeSets ==
    { [dn |-> DnA, drinkBalance |-> d, ibutton |-> i] :
        d \in { None, Some(0), Some(42), Some(0 - 5) },
        i \in { None, Some(<<>>), Some(<<Str(<<"0","1">>)>>), Some(<<Str(<<"0","1">>), Str(<<"0","2">>)>>),
                Some(<<Str(<<"0","1">>), Str(<<"0","1">>)>>) } }

OpsOps ==
    { Op("search_users", Str(<<"j">>), "", NoChangeSet),
      Op("_do_not_use_get_all_users", <<>>, "", NoChangeSet),
      Op("get_user", Str(<<"j","d","o","e">>), "", NoChangeSet),
      Op("get_user_by_ibutton", Str(<<"0","1">>), "", NoChangeSet),
      Op("get_user_by_phone", Str(<<"5","5","5">>), "", NoChangeSet),
      Op("deactivate_user", <<>>, DnA, NoChangeSet),
      Op("activate_user", <<>>, DnA, NoChangeSet) }
    \cup { Op("update_user", <<>>, "", cs) : cs \in ChangeSets }

InitOps ==
    /\ tasks = [t \in {NewTask(0)} |-> 1]
    /\ InitPool

NextOps ==
    \/ \E o \in OpsOps : Call(o)
    \/ Acquire
    \/ RecycleOk
    \/ RecycleFail
    \/ CreateOk
    \/ \E step \in CreateSteps : CreateFail(step)
    \/ \E rep \in SearchReplies : search_users(rep)
    \/ \E rep \in SearchReplies : _do_not_use_get_all_users(rep)
    \/ \E rep \in SearchReplies : get_user(rep)
    \/ \E rep \in SearchReplies : get_user_by_ibutton(rep)
    \/ \E rep \in SearchReplies : get_user_by_phone(rep)
    \/ \E rep \in ModifyReplies : update_user(rep)
    \/ \E rep \in ModifyReplies : set_user_nslock(rep)

SpecOps == InitOps /\ [][NextOps]_vars

(***************************************************************************)
(* The scenario of seven concurrent search_users calls on the pool of a    *)
(* client that found two servers: the calls are made, and each step of a   *)
(* call (the permit once there is one, the recycle, the create, the        *)
(* search) comes to an end, well or not.                                   *)
(***************************************************************************)
LiveCallers == max_size + ExtraCallers + 1

InitLive ==
    /\ tasks = [t \in {[NewTask(0) EXCEPT !.pc = "waiting", !.op = o] : o \in PoolOps}
                  |-> LiveCallers]
    /\ EmptyPool
    /\ Built(SrvOk(<<HostA, HostB>>))

NextLive ==
    \/ Acquire
    \/ RecycleOk
    \/ RecycleFail
    \/ CreateOk
    \/ \E step \in CreateSteps : CreateFail(step)
    \/ \E rep \in PoolReplies : search_users(rep)

\* the semaphore wakes a waiter when it has a permit, and the runtime polls
\* every task that can go on
FairLive ==
    /\ WF_vars(Acquire)
    /\ WF_vars(RecycleOk \/ RecycleFail)
    /\ WF_vars(CreateOk \/ \E step \in CreateSteps : CreateFail(step))
    /\ WF_vars(\E rep \in PoolReplies : search_users(rep))

SpecLive == InitLive /\ [][NextLive]_vars /\ FairLive

(***************************************************************************)
(* From the construction on: the SRV lookup gives an error or some         *)
(* records, and callers use the client once there is one.                  *)
(***************************************************************************)
\* a target written without the dot of the root
HostC == Str(<<"c">>)

\* (a lookup may be Ok and hold no SRV record: the code does not look at
\* how many there are)
SrvResponses ==
    { SrvErr("io"), SrvErr("NoRecordsFound"), SrvOk(<<>>),
      SrvOk(<<HostA>>), SrvOk(<<HostA, HostB>>), SrvOk(<<HostC, HostA>>) }

DiscoveryCallers == 2

InitDiscovery ==
    /\ tasks = [t \in {NewTask(0)} |-> DiscoveryCallers]
    /\ EmptyPool
    /\ srv = NoLookup
    /\ ldap_servers = <<>>
    /\ clients = <<>>

NextDiscovery ==
    \/ \E response \in SrvResponses : LdapClient_new(response)
    \/ \E o \in PoolOps : Call(o)
    \/ Acquire
    \/ RecycleOk
    \/ RecycleFail
    \/ CreateOk
    \/ \E step \in CreateSteps : CreateFail(step)
    \/ \E rep \in PoolReplies : search_users(rep)

SpecDiscovery == InitDiscovery /\ [][NextDiscovery]_vars

(***************************************************************************)
(* The concurrent callers again, any of which may drop the future of its   *)
(* call while the checkout is under way; the creations and the searches    *)
(* that are not given up succeed.                                          *)
(***************************************************************************)
NextCancel ==
    \/ \E o \in PoolOps : Call(o)
    \/ Acquire
    \/ RecycleOk
    \/ RecycleFail
    \/ CreateOk
    \/ search_users(LdapReply("success", <<>>))
    \/ CancelWaiting
    \/ CancelRecycling
    \/ CancelCreating

SpecCancel == Init /\ [][NextCancel]_vars

(***************************************************************************)
(* The client that new() returned and the clones made of it, of it or of   *)
(* one another, each with a task that calls through it (task 1 through the *)
(* first client, the tasks named 2 through the clones); the recycles, the  *)
(* creations and the searches succeed.                                     *)
(***************************************************************************)
InitClones ==
    /\ tasks = [t \in {NewTask(1)} |-> 1]
    /\ InitPool

NextClones ==
    \/ Clone
    \/ \E o \in PoolOps : Call(o)
    \/ Acquire
    \/ RecycleOk
    \/ CreateOk
    \/ search_users(LdapReply("success", <<>>))

SpecClones == InitClones /\ [][NextClones]_vars

(***************************************************************************)
(* Properties.                                                             *)
(***************************************************************************)
Holding == { t \in Tasks : t.pc = "holding" }
Waiting == { t \in Tasks : t.pc = "waiting" }
ConnIds == 1..(nextId - 1)
\* how often connection k is in the idle queue, and how many tasks have it
InIdle(k) == Cardinality({ i \in 1..Len(idle) : idle[i] = k })
HeldBy(k) == CountIn({ t \in Tasks : t.conn = k })

\* C1: with more callers than max_size, at most max_size (5) connections
\* are checked out at any time (and no more than max_size exist).
C1_AtMostMaxSize == CountIn(Holding) <= max_size /\ size <= max_size

\* five connections are out and a further caller waits for one
C1_Witness == CountIn(Holding) = max_size /\ CountIn(Waiting) >= 1

\* C2: every connection made is never in two places at once (twice idle,
\* idle and with a task, or with two tasks), a connection under recycle is
\* held by no caller, and a connection that is nowhere is one whose recycle
\* failed: none is lost.
C2_ExactlyOnce ==
    /\ \A k \in ConnIds :
          /\ InIdle(k) + HeldBy(k) <= 1
          /\ k \notin destroyed => InIdle(k) + HeldBy(k) = 1
    /\ \A t \in Tasks :
          /\ t.conn # 0 <=> t.pc \in {"recycling", "holding"}
          /\ t.conn # 0 => t.conn \in ConnIds
          /\ t.pc = "recycling" => \A u \in Holding : u.conn # t.conn
    /\ \A i \in 1..Len(idle) : idle[i] \in ConnIds

\* one connection is idle after its return, one is held, one is under
\* recycle, and one was dropped
C2_Witness ==
    /\ idle # <<>> /\ out.sent # <<>>
    /\ Holding # {}
    /\ \E t \in Tasks : t.pc = "recycling"
    /\ destroyed # {}

\* C3: a connection whose recycle failed is neither idle nor with any task
\* ever after.
C3_FailedNeverReused == \A k \in destroyed : InIdle(k) = 0 /\ HeldBy(k) = 0

\* a recycle failed, and the checkout went on to a connection made later
C3_Witness == \E t \in Holding : \E k \in destroyed : t.conn > k

\* C5 (as claimed): a call whose checkout failed in create (it ended
\* without a request sent) does not panic: its caller gets an error.
C5_CreateFailureIsError ==
    (out.op.kind # "none" /\ out.sent = <<>>) => out.result.status # "panicked"

\* the reply of a search or modify that failed
Failed(rep) == rep.kind # "result" \/ rep.rc \notin SuccessCodes

SearchKinds == { "search_users", "get_user", "get_user_by_ibutton", "get_user_by_phone" }
LookupKinds == { "get_user", "get_user_by_ibutton", "get_user_by_phone" }
ModifyKinds == { "update_user", "deactivate_user", "activate_user" }

\* C4 (as claimed): a lookup whose search succeeded returns the decoded
\* record of the entry when the search gave exactly 1 entry, and None when
\* it gave 0 or 2 or more entries.
C4_ExactlyOneOrNone ==
    (out.op.kind \in LookupKinds /\ out.sent # <<>> /\ ~Failed(out.reply[1])) =>
        LET es == out.reply[1].entries
        IN  IF Len(es) = 1
            THEN /\ out.result.status = "returned"
                 /\ out.result.value = Some(from_entry(es[1]).value)
            ELSE out.result = ReturnOf(None)

\* C6 (as claimed): update_user, deactivate_user or activate_user whose
\* modify failed does not end as a successful one does.
C6_ModifyFailureIsReported ==
    (out.op.kind \in ModifyKinds /\ out.sent # <<>> /\ Failed(out.reply[1])) =>
        out.result # ReturnOf(<<>>)

\* C7 (as claimed): a search that failed, or ended with a non-success
\* result code, does not panic.
C7_SearchFailureIsError ==
    (out.op.kind \in SearchKinds /\ out.sent # <<>> /\ Failed(out.reply[1])) =>
        out.result.status # "panicked"

Required == { "cn", "uid", "krbPrincipalName" }

\* C8 (as claimed): decoding an entry that lacks cn, uid or krbPrincipalName
\* does not panic, and decoding one that has the three gives a record with
\* the first value of each.
C8_DecodeReportsMissing ==
    (dec.fn = "from_entry" /\ dec.done) =>
        LET a == dec.entry.attrs
        IN  IF Required \subseteq DOMAIN a
            THEN /\ ~dec.user.panicked
                 /\ dec.user.value.cn = a["cn"][1]
                 /\ dec.user.value.uid = a["uid"][1]
                 /\ dec.user.value.krbPrincipalName = a["krbPrincipalName"][1]
            ELSE ~dec.user.panicked

\* C9: update_user, once it has a connection, sends one modify request, to
\* change_set.dn, with one Replace for each field the change set has (the
\* balance in decimal, the ibutton values) and nothing else.
C9_OneReplacePerField ==
    (out.op.kind = "update_user" /\ out.result.status = "returned") =>
        /\ Len(out.sent) = 1
        /\ LET cs    == out.op.change_set
               req   == out.sent[1]
               For(a) == { i \in 1..Len(req.mods) : req.mods[i].attr = a }
           IN  /\ req.kind = "modify"
               /\ req.dn = cs.dn
               /\ \A i \in 1..Len(req.mods) :
                     /\ req.mods[i].op = "Replace"
                     /\ req.mods[i].attr \in {"drinkBalance", "ibutton"}
               /\ Cardinality(For("drinkBalance")) = (IF IsSome(cs.drinkBalance) THEN 1 ELSE 0)
               /\ Cardinality(For("ibutton")) = (IF IsSome(cs.ibutton) THEN 1 ELSE 0)
               /\ \A i \in For("drinkBalance") :
                     \E v \in req.mods[i].vals :
                        req.mods[i].vals = {v} /\ ParseI64(v) = cs.drinkBalance
               /\ \A i \in For("ibutton") : req.mods[i].vals = Range(cs.ibutton[1])

\* a change set with only drinkBalance: the request replaces drinkBalance
\* alone
C9_Witness ==
    /\ out.op.kind = "update_user"
    /\ out.op.change_set = [dn |-> DnA, drinkBalance |-> Some(42), ibutton |-> None]
    /\ out.sent = <<ModifyRequest(DnA, <<Replace("drinkBalance", {Str(<<"4","2">>)})>>)>>

\* a value matches the pattern: somewhere in it stands "cn=", one or more
\* \w characters, and the groups subtree
IsGroupNameIn(name, v) ==
    /\ name # <<>>
    /\ \A i \in 1..Len(name) : IsWord(name[i])
    /\ \E p \in 1..Len(v) : HasAt(v, p, GroupPrefix \o name \o GroupSuffix)
MatchesPattern(v) ==
    \E p \in 1..Len(v) : \E q \in p..Len(v) : IsGroupNameIn(SubSeq(v, p, q), v)
Matching(l) == { i \in 1..Len(l) : MatchesPattern(l[i]) }
\* the k-th smallest element of a set of numbers
Kth(M, k) == CHOOSE i \in M : Cardinality({ j \in M : j <= i }) = k

\* C10: get_groups returns as many names as there are values that match
\* the pattern, the k-th name being a group name found in the k-th
\* matching value.
C10_GroupsInOrder ==
    (dec.fn = "get_groups" /\ dec.done) =>
        LET M == Matching(dec.member_of)
        IN  /\ Len(dec.groups) = Cardinality(M)
            /\ \A k \in 1..Len(dec.groups) :
                  IsGroupNameIn(dec.groups[k], dec.member_of[Kth(M, k)])

\* two matching values around one that does not match
C10_Witness ==
    /\ dec.done
    /\ dec.member_of = <<G_lao, G_times, G_nested>>
    /\ dec.groups = <<<<3790>>, Str(<<"e","b","_","1">>)>>


Creating == { t \in Tasks : t.pc = "creating" }
Ended == { t \in Tasks : t.pc = "idle" }

\* C11: of the seven concurrent search_users calls every one ends (no
\* caller waits for ever), and never are more than max_size (5) creations
\* of a connection under way.
C11_AllCallsComplete ==
    /\ <>(CountIn(Ended) = LiveCallers)
    /\ [](CountIn(Creating) <= max_size)

\* the seven calls have ended, the last with the users it found, and the
\* pool grew to its five connections on the way
C11_Witness ==
    /\ CountIn(Ended) = LiveCallers
    /\ out.result.status = "returned"
    /\ size = max_size
    /\ permits = max_size


InFlight == { t \in Tasks : t.pc # "idle" }
WithConn == { t \in Tasks : t.conn # 0 }

\* C12: every live connection is idle or with an operation in flight, so
\* that whenever no operation is in flight (each has ended: returned, or
\* panicked on a search error, a non-success result code or a decoding, or
\* logged a modify error) no connection is checked out: all are idle and
\* the semaphore has its max_size permits.
C12_ReleasedWhenDone ==
    /\ Len(idle) + CountIn(WithConn) = size
    /\ CountIn(InFlight) = 0 =>
          /\ CountIn(WithConn) = 0
          /\ Len(idle) = size
          /\ permits = max_size

\* get_user panicked decoding the one entry it got, whose drinkBalance has
\* no value; its connection is idle again
C12_Witness ==
    /\ CountIn(InFlight) = 0
    /\ out.op.kind = "get_user"
    /\ out.reply = <<LdapReply("success", <<E_nodrink>>)>>
    /\ out.result = PanicAt("from_entry")
    /\ idle = <<1>>
    /\ permits = max_size


LdapsA == Str(<<"l","d","a","p","s",":","/","/","a">>)
LdapsB == Str(<<"l","d","a","p","s",":","/","/","b">>)

\* C13 (as claimed): a client exists only after a lookup that gave records,
\* and its list of servers is then the non-empty list made of those
\* records, for good; with no client no operation runs and no connection is
\* made; and a creation under way has its server from that list.
C13_ServersFromDiscovery ==
    /\ clients # <<>> =>
          /\ srv.ok
          /\ ldap_servers # <<>>
          /\ get_ldap_servers(srv) = Returned(ldap_servers)
    /\ clients = <<>> =>
          /\ CountIn(InFlight) = 0
          /\ nextId = 1
    /\ \A t \in Creating :
          /\ clients # <<>>
          /\ t.server \in Range(ldap_servers)


\* an operation on a held connection ends, the server's reply being rep
OpEnds(rep) ==
    \/ search_users(rep) \/ _do_not_use_get_all_users(rep) \/ get_user(rep)
    \/ get_user_by_ibutton(rep) \/ get_user_by_phone(rep)
    \/ update_user(rep) \/ set_user_nslock(rep)

\* C14 (as claimed): when an operation ends whose search or modify failed
\* with an error of the transport, its connection is not put into the idle
\* queue.
C14_BrokenIsDiscarded == [][OpEnds(IoError) => idle' = idle]_vars


InCheckout == { t \in Tasks : t.pc \in {"recycling", "creating"} }

\* C15: when the recycle of an idle connection fails, the connection is
\* dropped, no call ends and no caller is told: the task is still in its
\* checkout (at the next idle connection, or creating); a creation that
\* succeeds hands its connection to the task; and no call ever ends on the
\* failure of a recycle.
C15_RecycleFailureIsSilent ==
    /\ [][RecycleFail =>
            /\ out' = out
            /\ CountIn(InCheckout)' = CountIn(InCheckout)
            /\ CountIn(Ended)' = CountIn(Ended)
            /\ size' = size - 1
            /\ destroyed' # destroyed]_vars
    /\ [][CreateOk =>
            /\ out' = out
            /\ CountIn(Holding)' = CountIn(Holding) + 1
            /\ CountIn(Creating)' = CountIn(Creating) - 1]_vars
    /\ [](out.result.at # "recycle")

\* the one connection made so far came back from a call, failed its
\* recycle in the checkout of the next call and was dropped, and that
\* checkout is now creating a connection
C15_Witness ==
    /\ nextId = 2
    /\ out.sent # <<>>
    /\ destroyed = {1}
    /\ size = 0
    /\ CountIn(Creating) = 1


\* a creation fails: at the pick of a server, at the connect or at the bind
CreateFails == \E step \in CreateSteps : CreateFail(step)

\* C16: a creation that fails ends its call there and then, by the panic
\* of the unwrap: no other server is tried and no connection is made; and
\* the server of every creation under way is one of ldap_servers, picked
\* for that creation (none when the list is empty: that creation fails at
\* the pick).
C16_OneCreationPerCheckout ==
    /\ [][CreateFails =>
            /\ CountIn(Creating)' = CountIn(Creating) - 1
            /\ CountIn(Ended)' = CountIn(Ended) + 1
            /\ out'.result.status = "panicked"
            /\ out'.result.at \in CreateSteps
            /\ out'.sent = <<>>
            /\ nextId' = nextId
            /\ size' = size]_vars
    /\ [](\A t \in Creating : t.server \in choose(ldap_servers))
    /\ [][CreateOk => \E t \in Creating : t.server \in Range(ldap_servers)]_vars

\* after a call ended on a connect that failed, two creations of the one
\* pool are under way, one to each of its two servers
C16_Witness ==
    /\ out.result = PanicAt("connect")
    /\ ldap_servers = <<LdapsA, LdapsB>>
    /\ \E t \in Creating : t.server = LdapsA
    /\ \E t \in Creating : t.server = LdapsB


PastAcquire == { t \in Tasks : t.pc \in {"recycling", "creating", "holding"} }

\* C17: a caller that gives up while it waits for a permit changes nothing
\* in the pool (the idle queue, the count of connections, the permits) and
\* nothing for the other callers; at all times every permit that is not in
\* the semaphore is with a call in flight that got it, whatever was given
\* up before, and a waiting caller can go on as soon as there is a permit.
C17_CancelLeaksNothing ==
    /\ [][CancelWaiting =>
            /\ idle' = idle /\ size' = size /\ permits' = permits
            /\ CountIn(Waiting)' = CountIn(Waiting) - 1
            /\ CountIn(PastAcquire)' = CountIn(PastAcquire)
            /\ out'.result = Cancelled("waiting")]_vars
    /\ [](permits >= 0 /\ permits + CountIn(PastAcquire) = max_size)
    /\ []((CountIn(Waiting) > 0 /\ permits > 0) => ENABLED Acquire)

\* a caller gave up its wait; five connections are out with the other
\* callers and a caller waits for one
C17_Witness ==
    /\ out.result = Cancelled("waiting")
    /\ CountIn(Holding) = max_size
    /\ CountIn(Waiting) = 1
    /\ permits = 0


\* a search_users or a lookup ends, the server's reply being rep
SearchEnds(rep) ==
    \/ search_users(rep) \/ get_user(rep)
    \/ get_user_by_ibutton(rep) \/ get_user_by_phone(rep)

\* C18: a search_users or lookup whose search runs into its timeout fails
\* (it panics), and its connection is put at the back of the idle queue,
\* open and counted as before, with its permit; such a connection is
\* always idle or with a task, never dropped for the timeout.
C18_TimeoutKeepsConnection ==
    /\ [][SearchEnds(Timeout) =>
            /\ out'.result = PanicAt("search")
            /\ Len(idle') = Len(idle) + 1
            /\ idle'[Len(idle')] \in timed_out'
            /\ SubSeq(idle', 1, Len(idle)) = idle
            /\ size' = size
            /\ permits' = permits + 1
            /\ destroyed' = destroyed]_vars
    /\ [](\A k \in timed_out : k \notin destroyed /\ InIdle(k) + HeldBy(k) = 1)

\* the one connection there ever was had a search run into its timeout;
\* the call after that one got the same connection, and its lookup
\* returned the user found
C18_Witness ==
    /\ nextId = 2
    /\ timed_out = {1}
    /\ idle = <<1>>
    /\ out.op.kind = "get_user_by_phone"
    /\ out.reply = <<LdapReply("success", <<E_full>>)>>
    /\ out.result.status = "returned"


\* the entry has cn, uid and krbPrincipalName, each with a value
HasRequired(a) == \A f \in Required : f \in DOMAIN a /\ a[f] # <<>>

\* C19 (as claimed): decoding an entry that has the required attributes
\* does not panic whatever drinkBalance is, and the record's drinkBalance
\* is the integer that the first value of the attribute parses to, None
\* when the attribute is absent, has no value, or has a first value that
\* is no integer.
C19_DrinkBalanceNeverFails ==
    (dec.fn = "from_entry" /\ dec.done /\ HasRequired(dec.entry.attrs)) =>
        LET a == dec.entry.attrs
        IN  /\ ~dec.user.panicked
            /\ dec.user.value.drinkBalance =
                  (IF "drinkBalance" \in DOMAIN a /\ a["drinkBalance"] # <<>>
                   THEN ParseI64(a["drinkBalance"][1])
                   ELSE None)


\* C20: every LdapClient there is points to the pool of the first one, each
\* has its task, and over all of them together at most max_size (5)
\* connections are checked out, of at most max_size that exist.
C20_ClonesShareThePool ==
    /\ \A i \in 1..Len(clients) : clients[i].ldap = clients[1].ldap
    /\ BagCardinality(tasks) = Len(clients)
    /\ CountIn(Holding) <= max_size
    /\ size <= max_size

\* the call that ended last was made through the first client, on one of
\* the five connections there are; all five are now checked out through
\* clones, and the first client waits for one
C20_Witness ==
    /\ out.by = 1 /\ out.sent # <<>>
    /\ nextId = max_size + 1 /\ destroyed = {}
    /\ CountIn({ t \in Holding : t.id = 2 }) = max_size
    /\ CountIn({ t \in Waiting : t.id = 1 }) = 1

====
